---- MODULE Spec2Model ----
(***************************************************************************)
(* The comment-reattachment and region-spacing passes of the formatter     *)
(* (gdtoolkit/formatter/formatter.py) and the class-statement dispatcher   *)
(* (gdtoolkit/formatter/class_statement.py).                               *)
(*                                                                         *)
(* A text is a sequence of tokens <<kind, id>>.  The kinds "\t" and " "    *)
(* are whitespace; a comment token carries the table slot it was gathered  *)
(* from as its id, so that every comment text is distinct.  The empty      *)
(* text "" is <<>>.  A formatted line is [no, text] with no = None for a   *)
(* synthetic line.  A Python list is a sequence: Python index i is index   *)
(* i + 1 here.  An Optional[str] of a comment table is <<>> for None and   *)
(* a non-empty text otherwise (a comment always starts with "#").          *)
(***************************************************************************)
EXTENDS Integers, Sequences, FiniteSets, TLC

VARIABLES pc, parse_tree, handled, rendered, formatted_lines, inline_comments,
          standalone_comments, after_inline, after_standalone, result

vars == <<pc, parse_tree, handled, rendered, formatted_lines, inline_comments,
          standalone_comments, after_inline, after_standalone, result>>

\* ------------------------------------------------------------------ bounds
MaxSrcLine == 4
MaxLines == 3
MaxComments == 2
MaxCleanupLen == 5
MaxStmts == 2

\* ------------------------------------------------------------------- texts
None == 0
NoComment == <<>>
Tok(k) == <<k, 0>>
Tab == Tok("\t")
INLINE_COMMENT_OFFSET == <<Tok(" "), Tok(" ")>>

IsSpace(tok) == tok[1] \in {"\t", " "}

Min(a, b) == IF a < b THEN a ELSE b

Reverse(s) == [i \in 1..Len(s) |-> s[Len(s) + 1 - i]]

\* s[a:b], s[a:] and s[:b] of a Python list, 0 <= a, 0 <= b
PySlice(s, a, b) == SubSeq(s, a + 1, Min(b, Len(s)))
PyFrom(s, a) == SubSeq(s, a + 1, Len(s))
PyUpTo(s, b) == SubSeq(s, 1, Min(b, Len(s)))

RECURSIVE LStrip(_)
LStrip(t) == IF t # <<>> /\ IsSpace(Head(t)) THEN LStrip(Tail(t)) ELSE t

\* str.strip()
Strip(t) == Reverse(LStrip(Reverse(LStrip(t))))

\* str.startswith of a marker
StartsWith(t, kind) == t # <<>> /\ t[1][1] = kind

IsBlank(t) == Strip(t) = <<>>

\* sep.join(parts)
RECURSIVE Join(_, _)
Join(sep, parts) ==
    IF parts = <<>> THEN <<>>
    ELSE IF Len(parts) = 1 THEN parts[1]
    ELSE parts[1] \o sep \o Join(sep, Tail(parts))

NotNone(cs) == SelectSeq(cs, LAMBDA c : c # NoComment)

Line(no, text) == [no |-> no, text |-> text]
BlankLine == Line(None, <<>>)

\* d indent units
Indent(d) == [k \in 1..d |-> Tab]

\* ----------------------------------------------------- _add_inline_comments
RECURSIVE InlineLoop(_, _, _)
InlineLoop(rev, remaining_comments, postprocessed_lines) ==
    IF rev = <<>> THEN postprocessed_lines
    ELSE LET l == Head(rev) IN
         IF l.no = None
         THEN InlineLoop(Tail(rev), remaining_comments,
                         Append(postprocessed_lines, l))
         ELSE LET comments == PyFrom(remaining_comments, l.no)
                  new_line == IF comments # <<>>
                              THEN Join(INLINE_COMMENT_OFFSET,
                                        <<l.text>> \o NotNone(comments))
                              ELSE l.text
              IN InlineLoop(Tail(rev), PyUpTo(remaining_comments, l.no),
                            Append(postprocessed_lines, Line(l.no, new_line)))

\* a variant that scans the lines forward
inline_comments_forward(lines, comments) == InlineLoop(lines, comments, <<>>)

_add_inline_comments(lines, comments) ==
    Reverse(InlineLoop(Reverse(lines), comments, <<>>))

\* ------------------------------------------------------ _get_greater_indent
\* indent_regex.search(line).group(0): the leading run of indent units
RECURSIVE IndentOf(_)
IndentOf(t) == IF t # <<>> /\ Head(t) = Tab THEN <<Tab>> \o IndentOf(Tail(t)) ELSE <<>>

_get_greater_indent(line_a, line_b) ==
    IF Len(IndentOf(line_a)) > Len(IndentOf(line_b))
    THEN IndentOf(line_a) ELSE IndentOf(line_b)

\* a variant with `if` for `while`
PopOneBlankLine(ls) ==
    IF ls # <<>> /\ IsBlank(ls[Len(ls)].text) THEN SubSeq(ls, 1, Len(ls) - 1) ELSE ls

\* a variant that drops every synthetic line, blank or not
RECURSIVE PopSyntheticLines(_)
PopSyntheticLines(ls) ==
    IF ls # <<>> /\ ls[Len(ls)].no = None
    THEN PopSyntheticLines(SubSeq(ls, 1, Len(ls) - 1))
    ELSE ls

\* the `while lines and lines[-1][1].strip() == "": lines.pop()` loops
RECURSIVE PopBlankLines(_)
PopBlankLines(ls) ==
    IF ls # <<>> /\ IsBlank(ls[Len(ls)].text)
    THEN PopBlankLines(SubSeq(ls, 1, Len(ls) - 1))
    ELSE ls

\* --------------------------------------------------- _add_standalone_comments
\* one iteration of `for i, comment in enumerate(reversed_comments)`
RegionBranch(post, indent, comment) ==
    post \o <<Line(None, <<>>), Line(None, indent \o comment)>>

EndRegionBranch(post, indent, comment, reversed_comments, i) ==
    LET popped == PopBlankLines(post)
        placed == Append(popped, Line(None, indent \o comment))
        \* Python index i + 1 is index i + 2 here
        follows == /\ i + 1 < Len(reversed_comments)
                   /\ reversed_comments[i + 2] # NoComment
                   /\ StartsWith(Strip(reversed_comments[i + 2]), "#region")
    IN IF follows THEN placed \o <<Line(None, <<>>), Line(None, <<>>)>> ELSE placed

RECURSIVE CommentLoop(_, _, _, _)
CommentLoop(reversed_comments, i, indent, post) ==
    IF i >= Len(reversed_comments) THEN post
    ELSE LET comment == reversed_comments[i + 1]
             stripped == Strip(comment)
         IN IF comment = NoComment
            THEN CommentLoop(reversed_comments, i + 1, indent, post)
            ELSE IF StartsWith(stripped, "#region")
            THEN CommentLoop(reversed_comments, i + 1, indent,
                             RegionBranch(post, indent, comment))
            ELSE IF StartsWith(stripped, "#endregion")
            THEN CommentLoop(reversed_comments, i + 1, indent,
                             EndRegionBranch(post, indent, comment,
                                             reversed_comments, i))
            ELSE CommentLoop(reversed_comments, i + 1, indent,
                             Append(post, Line(None, indent \o comment)))

\* the slice of the table a line inside an expression claims
ClaimedComments(remaining_comments, line_no, last_expression_line_no) ==
    PySlice(remaining_comments, line_no, last_expression_line_no)

\* loop state: remaining_comments, postprocessed_lines,
\* currently_inside_expression, last_expression_line_no
StandaloneStep(st, l) ==
    IF l.no = None
    THEN [st EXCEPT !.post = Append(@, l), !.inside = FALSE]
    ELSE IF ~st.inside
    THEN [st EXCEPT !.post = Append(@, l), !.inside = TRUE, !.last = l.no]
    ELSE LET comments == ClaimedComments(st.remaining, l.no, st.last)
             indent == _get_greater_indent(l.text, st.post[Len(st.post)].text)
             post2 == CommentLoop(Reverse(comments), 0, indent, st.post)
         IN [st EXCEPT !.remaining = PyUpTo(@, l.no),
                       !.post = Append(post2, l)]

RECURSIVE StandaloneLoop(_, _)
StandaloneLoop(rev, st) ==
    IF rev = <<>> THEN st.post
    ELSE StandaloneLoop(Tail(rev), StandaloneStep(st, Head(rev)))

_add_standalone_comments(lines, comments) ==
    Reverse(StandaloneLoop(Reverse(lines),
                           [remaining |-> comments, post |-> <<>>,
                            inside |-> FALSE, last |-> None]))

\* ---------------------------------------------------- _cleanup_region_spacing
\* a variant of the look-ahead that does not count the blank lines it skips
RECURSIVE MissingUncounted(_, _, _)
MissingUncounted(lines, j, blank_lines) ==
    IF j >= Len(lines) THEN 0
    ELSE LET next_line == lines[j + 1].text IN
         IF Strip(next_line) = <<>> THEN MissingUncounted(lines, j + 1, blank_lines)
         ELSE IF StartsWith(Strip(next_line), "#region")
              THEN (IF 2 - blank_lines > 0 THEN 2 - blank_lines ELSE 0)
              ELSE 0

\* the look-ahead from j = i + 1: blank lines counted up to the next
\* non-blank line; the number of blank lines to add (0 when the next
\* non-blank line is no #region line or the input ends)
RECURSIVE Missing(_, _, _)
Missing(lines, j, blank_lines) ==
    IF j >= Len(lines) THEN 0
    ELSE LET next_line == lines[j + 1].text IN
         IF Strip(next_line) = <<>> THEN Missing(lines, j + 1, blank_lines + 1)
         ELSE IF StartsWith(Strip(next_line), "#region")
              THEN (IF 2 - blank_lines > 0 THEN 2 - blank_lines ELSE 0)
              ELSE 0

BlankLines(n) == [k \in 1..n |-> Line(None, <<>>)]

RECURSIVE CleanupLoop(_, _, _)
CleanupLoop(lines, i, cleaned) ==
    IF i >= Len(lines) THEN cleaned
    ELSE LET l == lines[i + 1] IN
         IF StartsWith(Strip(l.text), "#endregion")
         THEN CleanupLoop(lines, i + 1,
                          Append(PopBlankLines(cleaned), l)
                              \o BlankLines(Missing(lines, i + 1, 0)))
         ELSE CleanupLoop(lines, i + 1, Append(cleaned, l))

_cleanup_region_spacing(lines) == CleanupLoop(lines, 0, <<>>)


\* ============================================================================
\* class_statement.py.  A tree node is [data, line, end_line, children], a
\* leaf token [value], an expression [data, text, long]: text is what the
\* expression formatter prints for it, long says that it does not fit the
\* maximal line length.  An Outcome is [raised, lines, last, handled]:
\* raised stands for the KeyError of the handler lookup, handled lists the
\* statements <<data, line>> a handler was called for.
\* ============================================================================
Outcome(lines, last) == [raised |-> FALSE, lines |-> lines, last |-> last, handled |-> <<>>]
KeyError == [raised |-> TRUE, lines |-> <<>>, last |-> None, handled |-> <<>>]

\* Context: indentation depth and the last source line a sibling consumed
Context(depth, line) == [depth |-> depth, previously_processed_line_number |-> line]
indent_string(context) == Indent(context.depth)
create_child_context(context, line) == Context(context.depth + 1, line)

ExpressionContext(prefix_string, prefix_line, suffix_string, suffix_line) ==
    [prefix_string |-> prefix_string, prefix_line |-> prefix_line,
     suffix_string |-> suffix_string, suffix_line |-> suffix_line]

expression_to_str(expression) == expression.text

\* one fixed line at the statement's own line number
format_simple_statement(text, statement, context) ==
    Outcome(<<Line(statement.line, indent_string(context) \o text)>>, statement.line)

format_var_statement(statement, context) ==
    format_simple_statement(<<Tok("var "), Tok(statement.children[1].value)>>,
                            statement, context)

\* prefix, expression and suffix on one line, or wrapped over three lines
\* when the expression is too long
format_expression(expression, expression_context, context) ==
    IF expression.long
    THEN Outcome(<<Line(expression_context.prefix_line,
                        indent_string(context) \o expression_context.prefix_string
                            \o <<Tok("(")>>),
                   Line(expression_context.suffix_line,
                        Indent(context.depth + 1) \o expression_to_str(expression)),
                   Line(expression_context.suffix_line,
                        indent_string(context) \o <<Tok(")")>>
                            \o expression_context.suffix_string)>>,
                 expression_context.suffix_line)
    ELSE Outcome(<<Line(expression_context.prefix_line,
                        indent_string(context) \o expression_context.prefix_string
                            \o expression_to_str(expression)
                            \o expression_context.suffix_string)>>,
                 expression_context.suffix_line)

format_concrete_expression(expression, expression_context, context) ==
    format_expression(expression, expression_context, context)

\* the function-scope dispatcher: its own vocabulary, the same contract
format_func_statement(statement, context) ==
    IF statement.data = "pass_stmt"
    THEN [format_simple_statement(<<Tok("pass")>>, statement, context)
              EXCEPT !.handled = <<<<statement.data, statement.line>>>>]
    ELSE KeyError

\* the blank lines the block driver requires between two sibling statements
Scoped == {"class_def", "func_def", "static_func_def"}
surrounding_empty_lines(table, previous, next) ==
    IF previous \in Scoped \/ next \in Scoped
    THEN (IF table = "global" THEN <<BlankLine, BlankLine>> ELSE <<BlankLine>>)
    ELSE <<>>

\* the registered tags of format_class_statement and their handlers
handlers ==
    [pass_stmt |-> "format_simple_statement",
     enum_stmt |-> "_format_enum_statement",
     signal_stmt |-> "_format_signal_statement",
     extends_stmt |-> "_format_extends_statement",
     classname_stmt |-> "_format_classname_statement",
     classname_extends_stmt |-> "_format_classname_extends_statement",
     class_var_stmt |-> "format_var_statement",
     const_stmt |-> "_format_const_statement",
     class_def |-> "_format_class_statement",
     func_def |-> "_format_func_statement",
     static_func_def |-> "_format_child_and_prepend_to_outcome"]

\* a variant that falls back on a handler for a tag it does not know
lookup_handler_or_default(data) ==
    IF data \in DOMAIN handlers THEN handlers[data] ELSE "format_simple_statement"

\* handlers[statement.data]
lookup_handler(data) == IF data \in DOMAIN handlers THEN handlers[data] ELSE "KeyError"

RECURSIVE format_class_statement(_, _)
RECURSIVE format_block(_, _, _, _)

\* the statements from index k on, behind the lines acc; cursor is the last
\* line the previous sibling consumed
RECURSIVE format_block_from(_, _, _, _, _, _, _, _)
format_block_from(statements, k, statement_formatter, context, table, acc, cursor, done) ==
    IF k > Len(statements) THEN [Outcome(acc, cursor) EXCEPT !.handled = done]
    ELSE LET here == [context EXCEPT !.previously_processed_line_number = cursor]
             out == IF statement_formatter = "format_class_statement"
                    THEN format_class_statement(statements[k], here)
                    ELSE format_func_statement(statements[k], here)
             blank_lines == IF k = 1 THEN <<>>
                            ELSE surrounding_empty_lines(table, statements[k - 1].data,
                                                         statements[k].data)
         IN IF out.raised THEN [KeyError EXCEPT !.handled = done \o out.handled]
            ELSE format_block_from(statements, k + 1, statement_formatter, context, table,
                                   acc \o blank_lines \o out.lines, out.last,
                                   done \o out.handled)

format_block(statements, statement_formatter, context, table) ==
    format_block_from(statements, 1, statement_formatter, context, table, <<>>,
                      context.previously_processed_line_number, <<>>)

\* a variant that keeps the indentation of the child's first line
prepend_without_strip(statement, context, prefix) ==
    LET out == format_class_statement(statement.children[1], context) IN
    IF out.raised THEN out
    ELSE [out EXCEPT !.lines =
             <<Line(out.lines[1].no,
                    indent_string(context) \o prefix \o out.lines[1].text)>>
                 \o Tail(out.lines)]

_format_child_and_prepend_to_outcome(statement, context, prefix) ==
    LET out == format_class_statement(statement.children[1], context) IN
    IF out.raised THEN out
    ELSE LET first_line_no == out.lines[1].no
             first_line == out.lines[1].text
         IN [out EXCEPT !.lines =
                <<Line(first_line_no,
                       indent_string(context) \o prefix \o Strip(first_line))>>
                    \o Tail(out.lines)]

_format_const_statement(statement, context) ==
    LET name == Tok(statement.children[2].value)
        prefix == CASE Len(statement.children) = 4 ->
                           <<Tok("const "), name, Tok(" = ")>>
                    [] Len(statement.children) = 5 ->
                           <<Tok("const "), name, Tok(" := ")>>
                    [] Len(statement.children) = 6 ->
                           <<Tok("const "), name, Tok(": "),
                             Tok(statement.children[4].value), Tok(" = ")>>
    IN format_expression(statement.children[Len(statement.children)],
                         ExpressionContext(prefix, statement.line, <<>>, statement.end_line),
                         context)

_format_signal_statement(statement, context) ==
    LET name == <<Tok("signal "), Tok(statement.children[1].value)>> IN
    IF Len(statement.children) = 1 \/ Len(statement.children[2].children) = 0
    THEN format_simple_statement(name, statement, context)
    ELSE format_concrete_expression(
             statement.children[Len(statement.children)],
             ExpressionContext(name, statement.line, <<>>, statement.end_line),
             context)

_format_classname_statement(statement, context) ==
    Outcome(<<Line(statement.line,
                   indent_string(context)
                       \o <<Tok("class_name "), Tok(statement.children[1].value)>>)>>,
            statement.line)

\* ".".join of the texts of the children from index k on, behind a "."
RECURSIVE attribute_chain(_, _)
attribute_chain(children, k) ==
    IF k > Len(children) THEN <<>>
    ELSE <<Tok(".")>> \o expression_to_str(children[k]) \o attribute_chain(children, k + 1)

_format_extends_statement(statement, context) ==
    LET optional_attributes == IF Len(statement.children) = 1 THEN <<>>
                               ELSE attribute_chain(statement.children, 2)
    IN Outcome(<<Line(statement.line,
                      indent_string(context) \o <<Tok("extends ")>>
                          \o expression_to_str(statement.children[1])
                          \o optional_attributes)>>,
               statement.line)

_format_classname_extends_statement(statement, context) ==
    LET extendee_pos == 2 + 1
        optional_attributes == IF Len(statement.children) <= extendee_pos + 1 THEN <<>>
                               ELSE attribute_chain(statement.children, extendee_pos + 2)
    IN Outcome(<<Line(statement.line,
                      indent_string(context)
                          \o <<Tok("class_name "), Tok(statement.children[2].value),
                               Tok(" extends ")>>
                          \o expression_to_str(statement.children[extendee_pos + 1])
                          \o optional_attributes)>>,
               statement.line)

_format_class_statement(statement, context) ==
    LET name == statement.children[1].value
        header == <<Line(statement.line,
                         indent_string(context) \o <<Tok("class "), Tok(name), Tok(":")>>)>>
        body == format_block(Tail(statement.children), "format_class_statement",
                             create_child_context(context, statement.line), "default")
    IN IF body.raised THEN body
       ELSE [body EXCEPT !.lines = header \o body.lines]

_format_func_header(statement, context) ==
    LET name == statement.children[1].value
        has_return_type == Len(statement.children) > 2
        suffix == IF has_return_type
                  THEN <<Tok(" -> "), Tok(statement.children[3].value), Tok(":")>>
                  ELSE <<Tok(":")>>
    IN format_concrete_expression(
           statement.children[2],
           ExpressionContext(<<Tok("func "), Tok(name)>>, statement.line, suffix,
                             statement.end_line),
           context)

_format_func_statement(statement, context) ==
    LET header == _format_func_header(statement.children[1], context)
        body == format_block(Tail(statement.children), "format_func_statement",
                             create_child_context(context, header.last), "default")
    IN IF body.raised THEN body
       ELSE [body EXCEPT !.lines = header.lines \o body.lines]

_format_enum_statement(statement, context) ==
    LET actual_enum == statement.children[1]
        prefix == IF Len(actual_enum.children) = 2
                  THEN <<Tok("enum "), Tok(actual_enum.children[1].value), Tok(" ")>>
                  ELSE <<Tok("enum ")>>
    IN format_concrete_expression(
           actual_enum.children[Len(actual_enum.children)],
           ExpressionContext(prefix, statement.line, <<>>, statement.end_line),
           context)

call_handler(handler, statement, context) ==
    CASE handler = "format_simple_statement" ->
             format_simple_statement(<<Tok("pass")>>, statement, context)
      [] handler = "_format_enum_statement" -> _format_enum_statement(statement, context)
      [] handler = "_format_signal_statement" -> _format_signal_statement(statement, context)
      [] handler = "_format_extends_statement" -> _format_extends_statement(statement, context)
      [] handler = "_format_classname_statement" ->
             _format_classname_statement(statement, context)
      [] handler = "_format_classname_extends_statement" ->
             _format_classname_extends_statement(statement, context)
      [] handler = "format_var_statement" -> format_var_statement(statement, context)
      [] handler = "_format_const_statement" -> _format_const_statement(statement, context)
      [] handler = "_format_class_statement" -> _format_class_statement(statement, context)
      [] handler = "_format_func_statement" -> _format_func_statement(statement, context)
      [] handler = "_format_child_and_prepend_to_outcome" ->
             _format_child_and_prepend_to_outcome(statement, context, <<Tok("static ")>>)

format_class_statement(statement, context) ==
    LET handler == lookup_handler(statement.data) IN
    IF handler = "KeyError" THEN KeyError
    ELSE LET out == call_handler(handler, statement, context)
         IN [out EXCEPT !.handled = <<<<statement.data, statement.line>>>> \o @]

\* ------------------------------------------------------------ the inputs
Depths == {0, 1}

\* a rendered code line of source line n at depth d, a blank spacer
CodeLine(n, d) == Line(n, Indent(d) \o <<<<"code", n>>>>)

RenderedChoices ==
    {BlankLine} \cup {CodeLine(n, d) : n \in 1..MaxSrcLine, d \in Depths}

Numbers(ls) == SelectSeq([i \in 1..Len(ls) |-> ls[i].no], LAMBDA n : n # None)

NonDecreasing(ns) == \A i \in 1..(Len(ns) - 1) : ns[i] <= ns[i + 1]

\* what the block driver hands over: numbered code lines in source order
\* and blank spacers; the first statement of a file is at depth 0
FirstAtTop(ls) ==
    \A i \in 1..Len(ls) :
        (ls[i].no # None /\ \A j \in 1..(i - 1) : ls[j].no = None)
            => ls[i].text[1] # Tab

IsRendered(ls) == NonDecreasing(Numbers(ls)) /\ FirstAtTop(ls)

NumberSet(ls) == {ls[i].no : i \in 1..Len(ls)} \ {None}

\* what a source line holds besides code: nothing, a standalone comment
\* (plain, region-open, region-close) on a line of its own, or an inline
\* comment trailing code
StandaloneKinds == {"#", "#region", "#endregion"}
SourceKinds == {"", "#i"} \cup StandaloneKinds

\* a line that was rendered holds code, hence no standalone comment; an
\* inline comment trails code, hence is not above the first statement
AllowedKinds(ls, s) ==
    {kind \in SourceKinds :
        /\ s \in NumberSet(ls) => kind \notin StandaloneKinds
        /\ kind = "#i" => \E n \in NumberSet(ls) : n <= s}

\* the source lines s .. MaxSrcLine with at most left comments
RECURSIVE SourcesFrom(_, _, _)
SourcesFrom(ls, s, left) ==
    IF s > MaxSrcLine THEN {<<>>}
    ELSE {<<"">> \o rest : rest \in SourcesFrom(ls, s + 1, left)}
         \cup (IF left = 0 THEN {}
               ELSE {<<kr[1]>> \o kr[2] :
                        kr \in (AllowedKinds(ls, s) \ {""})
                                   \X SourcesFrom(ls, s + 1, left - 1)})

Sources(ls) == SourcesFrom(ls, 1, MaxComments)

\* the comment tables: slot 0 is unused, slot s belongs to source line s
StandaloneTable(src) ==
    <<NoComment>> \o [s \in 1..MaxSrcLine |->
        IF src[s] \in StandaloneKinds THEN <<<<src[s], s>>>> ELSE NoComment]

InlineTable(src) ==
    <<NoComment>> \o [s \in 1..MaxSrcLine |->
        IF src[s] = "#i" THEN <<<<"#i", s>>>> ELSE NoComment]

\* ---------------------------------------------------------------- format_code
Init ==
    /\ pc = "rendered"
    /\ \E len \in 1..MaxLines : \E ls \in [1..len -> RenderedChoices] :
           IsRendered(ls) /\ rendered = ls
    /\ \E src \in Sources(rendered) :
        /\ standalone_comments = StandaloneTable(src)
        /\ inline_comments = InlineTable(src)
    /\ formatted_lines = rendered
    /\ after_inline = <<>>
    /\ after_standalone = <<>>
    /\ result = <<>>
    /\ parse_tree = <<>>
    /\ handled = <<>>

\* formatted_lines.append((None, ""))
AppendLastLine ==
    /\ pc = "rendered"
    /\ formatted_lines' = Append(formatted_lines, Line(None, <<>>))
    /\ pc' = "inline"
    /\ UNCHANGED <<parse_tree, handled, rendered, inline_comments, standalone_comments,
                   after_inline, after_standalone, result>>

InlinePass ==
    /\ pc = "inline"
    /\ formatted_lines' = _add_inline_comments(formatted_lines, inline_comments)
    /\ after_inline' = formatted_lines'
    /\ pc' = "standalone"
    /\ UNCHANGED <<parse_tree, handled, rendered, inline_comments, standalone_comments,
                   after_standalone, result>>

StandalonePass ==
    /\ pc = "standalone"
    /\ formatted_lines' = _add_standalone_comments(formatted_lines, standalone_comments)
    /\ after_standalone' = formatted_lines'
    /\ pc' = "cleanup"
    /\ UNCHANGED <<parse_tree, handled, rendered, inline_comments, standalone_comments,
                   after_inline, result>>

CleanupPass ==
    /\ pc = "cleanup"
    /\ formatted_lines' = _cleanup_region_spacing(formatted_lines)
    /\ pc' = "join"
    /\ UNCHANGED <<parse_tree, handled, rendered, inline_comments, standalone_comments,
                   after_inline, after_standalone, result>>

\* "\n".join([line for _, line in formatted_lines]): the texts, in order
JoinLines ==
    /\ pc = "join"
    /\ result' = [i \in 1..Len(formatted_lines) |-> formatted_lines[i].text]
    /\ pc' = "done"
    /\ UNCHANGED <<parse_tree, handled, rendered, formatted_lines, inline_comments,
                   standalone_comments, after_inline, after_standalone>>

Next == AppendLastLine \/ InlinePass \/ StandalonePass \/ CleanupPass \/ JoinLines

Spec == Init /\ [][Next]_vars

\* ------------------------------------- _cleanup_region_spacing on any input
\* any line sequence: code, blank and whitespace-only lines, region markers
\* (bare or indented) and plain comments; the id of a token is its position
CleanupKinds == {"code", "", "\t", "#region", "#endregion", "\t#endregion", "#"}

CleanupLine(kind, i) ==
    IF kind = "code" THEN Line(i, <<<<"code", i>>>>)
    ELSE IF kind = "" THEN Line(None, <<>>)
    ELSE IF kind = "\t" THEN Line(None, <<Tab>>)
    ELSE IF kind = "\t#endregion" THEN Line(None, <<Tab, <<"#endregion", i>>>>)
    ELSE Line(None, <<<<kind, i>>>>)

InitCleanup ==
    /\ pc = "cleanup"
    /\ \E len \in 0..MaxCleanupLen : \E f \in [1..len -> CleanupKinds] :
           formatted_lines = [i \in 1..len |-> CleanupLine(f[i], i)]
    /\ after_standalone = formatted_lines
    /\ rendered = <<>>
    /\ inline_comments = <<>>
    /\ standalone_comments = <<>>
    /\ after_inline = <<>>
    /\ result = <<>>
    /\ parse_tree = <<>>
    /\ handled = <<>>

NextCleanup == CleanupPass \/ JoinLines

SpecCleanup == InitCleanup /\ [][NextCleanup]_vars

\* ------------------------------------------------- the class-scope pipeline
\* what the parser hands over.  A file is a sequence of entries [kind, depth]:
\* an entry behind a class_def is the first statement of its body, every
\* other entry continues a block that is open
Token(value) == [value |-> value]
Tree(data, line, end_line, children) ==
    [data |-> data, line |-> line, end_line |-> end_line, children |-> children]
Expr(text, long) ==
    [data |-> "expr", text |-> <<Tok(text)>>, long |-> long, children |-> <<Token(text)>>]

func_def(l) ==
    Tree("func_def", l, l + 1,
         <<Tree("func_header", l, l, <<Token("f"), Expr("()", FALSE)>>),
           Tree("pass_stmt", l + 1, l + 1, <<>>)>>)

\* a wrapped parameter list and a return type
func_def_long(l) ==
    Tree("func_def", l, l + 2,
         <<Tree("func_header", l, l + 1,
                <<Token("g"), Expr("(a, b)", TRUE), Token("int")>>),
           Tree("pass_stmt", l + 2, l + 2, <<>>)>>)

StatementKinds ==
    {"pass_stmt", "enum_stmt", "enum_anonymous", "signal_stmt", "signal_args",
     "signal_no_args", "extends_stmt", "extends_attributes", "classname_stmt",
     "classname_extends_stmt", "classname_extends_attributes", "class_var_stmt",
     "const_stmt", "const_inferred", "const_typed", "func_def", "func_def_long",
     "static_func_def", "static_func_def_long", "static_annotation", "annotation"}

\* the statement of a kind that starts at source line l
Statement(kind, l) ==
    CASE kind = "pass_stmt" -> Tree("pass_stmt", l, l, <<>>)
      [] kind = "enum_stmt" ->
             Tree("enum_stmt", l, l + 1,
                  <<Tree("enum_named", l, l + 1, <<Token("E"), Expr("{A, B}", TRUE)>>)>>)
      [] kind = "enum_anonymous" ->
             Tree("enum_stmt", l, l, <<Tree("enum_regular", l, l, <<Expr("{A}", FALSE)>>)>>)
      [] kind = "signal_stmt" -> Tree("signal_stmt", l, l, <<Token("s")>>)
      [] kind = "signal_args" ->
             Tree("signal_stmt", l, l, <<Token("s"), Expr("(a)", FALSE)>>)
      [] kind = "signal_no_args" ->
             Tree("signal_stmt", l, l,
                  <<Token("s"), [Expr("()", FALSE) EXCEPT !.children = <<>>]>>)
      [] kind = "extends_stmt" -> Tree("extends_stmt", l, l, <<Expr("B", FALSE)>>)
      [] kind = "extends_attributes" ->
             Tree("extends_stmt", l, l,
                  <<Expr("'b.gd'", FALSE), Expr("B", FALSE), Expr("C", FALSE)>>)
      [] kind = "classname_stmt" -> Tree("classname_stmt", l, l, <<Token("N")>>)
      [] kind = "classname_extends_stmt" ->
             Tree("classname_extends_stmt", l, l,
                  <<Token("class_name"), Token("N"), Token("extends"), Expr("B", FALSE)>>)
      [] kind = "classname_extends_attributes" ->
             Tree("classname_extends_stmt", l, l,
                  <<Token("class_name"), Token("N"), Token("extends"),
                    Expr("'b.gd'", FALSE), Expr("B", FALSE)>>)
      [] kind = "class_var_stmt" -> Tree("class_var_stmt", l, l, <<Token("x")>>)
      [] kind = "const_stmt" ->
             Tree("const_stmt", l, l,
                  <<Token("const"), Token("X"), Token("="), Expr("1", FALSE)>>)
      [] kind = "const_inferred" ->
             Tree("const_stmt", l, l + 1,
                  <<Token("const"), Token("X"), Token(":"), Token("="),
                    Expr("[1, 2]", TRUE)>>)
      [] kind = "const_typed" ->
             Tree("const_stmt", l, l,
                  <<Token("const"), Token("X"), Token(":"), Token("int"), Token("="),
                    Expr("1", FALSE)>>)
      [] kind = "func_def" -> func_def(l)
      [] kind = "func_def_long" -> func_def_long(l)
      [] kind = "static_func_def" -> Tree("static_func_def", l, l + 1, <<func_def(l)>>)
      [] kind = "static_func_def_long" ->
             Tree("static_func_def", l, l + 2, <<func_def_long(l)>>)
      [] kind = "static_annotation" ->
             Tree("static_func_def", l, l, <<Tree("annotation", l, l, <<>>)>>)
      [] kind = "annotation" -> Tree("annotation", l, l, <<>>)

\* the depths at which an entry may follow the entries es
NextDepths(es) ==
    IF es = <<>> THEN {0}
    ELSE IF es[Len(es)].kind = "class_def" THEN {es[Len(es)].depth + 1}
    ELSE 0..es[Len(es)].depth

\* the sequences of n entries
RECURSIVE EntrySeqs(_)
EntrySeqs(n) ==
    IF n = 0 THEN {<<>>}
    ELSE {Append(ekd[1], [kind |-> ekd[2], depth |-> ekd[3]]) :
              ekd \in {x \in EntrySeqs(n - 1) \X (StatementKinds \cup {"class_def"})
                                  \X (0..n) :
                           x[3] \in NextDepths(x[1])}}

\* the files of n statements; a class body is not empty
Files(n) == {es \in EntrySeqs(n) : es[n].kind # "class_def"}

\* the sibling statements at a depth from entry k on, the first at line
RECURSIVE ParseBlock(_, _, _, _)
ParseBlock(es, k, depth, line) ==
    IF k > Len(es) \/ es[k].depth < depth
    THEN [nodes |-> <<>>, k |-> k, line |-> line]
    ELSE IF es[k].kind = "class_def"
    THEN LET body == ParseBlock(es, k + 1, depth + 1, line + 1)
             rest == ParseBlock(es, body.k, depth, body.line)
         IN [rest EXCEPT !.nodes =
                <<Tree("class_def", line, body.line - 1, <<Token("C")>> \o body.nodes)>>
                    \o @]
    ELSE LET statement == Statement(es[k].kind, line)
             rest == ParseBlock(es, k + 1, depth, statement.end_line + 1)
         IN [rest EXCEPT !.nodes = <<statement>> \o @]

\* parser.parse
Parse(es) ==
    LET top == ParseBlock(es, 1, 0, 1)
    IN Tree("start", 1, top.line - 1, top.nodes)

InitClass ==
    /\ pc = "parsed"
    /\ \E n \in 1..MaxStmts : \E es \in Files(n) : parse_tree = Parse(es)
    /\ inline_comments = [s \in 1..(parse_tree.end_line + 1) |-> NoComment]
    /\ standalone_comments = [s \in 1..(parse_tree.end_line + 1) |-> NoComment]
    /\ handled = <<>>
    /\ rendered = <<>>
    /\ formatted_lines = <<>>
    /\ after_inline = <<>>
    /\ after_standalone = <<>>
    /\ result = <<>>

\* the call of the block driver at the top scope; a KeyError leaves
\* format_code before anything is assigned
FormatTopBlock ==
    /\ pc = "parsed"
    /\ LET out == format_block(parse_tree.children, "format_class_statement",
                               Context(0, 0), "global")
       IN /\ handled' = out.handled
          /\ IF out.raised
             THEN pc' = "KeyError" /\ UNCHANGED <<rendered, formatted_lines>>
             ELSE pc' = "rendered" /\ rendered' = out.lines /\ formatted_lines' = out.lines
    /\ UNCHANGED <<parse_tree, inline_comments, standalone_comments, after_inline,
                   after_standalone, result>>

NextClass ==
    \/ FormatTopBlock
    \/ AppendLastLine
    \/ InlinePass
    \/ StandalonePass
    \/ CleanupPass
    \/ JoinLines

SpecClass == InitClass /\ [][NextClass]_vars

\* ------------------------------------------------------------------ claims
IsNumbered(l) == l.no # None
IsRegionOpen(l) == StartsWith(Strip(l.text), "#region")
IsRegionClose(l) == StartsWith(Strip(l.text), "#endregion")
IsBlankLine(l) == IsBlank(l.text)
IsCommentTok(tok) == tok[1] \in {"#", "#region", "#endregion", "#i"}

Max(a, b) == IF a > b THEN a ELSE b

\* the indices of the non-blank lines and of the numbered lines, in order
NonBlankPositions(ls) ==
    SelectSeq([i \in 1..Len(ls) |-> i], LAMBDA i : ~IsBlankLine(ls[i]))
NumberedPositions(ls) ==
    SelectSeq([i \in 1..Len(ls) |-> i], LAMBDA i : IsNumbered(ls[i]))
NonBlankLines(ls) == SelectSeq(ls, LAMBDA l : ~IsBlankLine(l))
NumberedLines(ls) == SelectSeq(ls, IsNumbered)

\* the tokens of a sequence of texts, in order
RECURSIVE Flatten(_)
Flatten(texts) == IF texts = <<>> THEN <<>> ELSE Head(texts) \o Flatten(Tail(texts))

\* how often a token occurs in a sequence of texts
Occurrences(texts, tok) == Len(SelectSeq(Flatten(texts), LAMBDA t : t = tok))

TextsOf(ls) == [i \in 1..Len(ls) |-> ls[i].text]

\* the source lines whose slot of a comment table holds a comment
Slots(table) == {s \in 1..(Len(table) - 1) : table[s + 1] # NoComment}

CommentCount(texts) == Len(SelectSeq(Flatten(texts), IsCommentTok))

\* the state a pass hands over: its input and its output are both at hand,
\* and no later step writes either of them
CleanupDone == pc = "join"
StandaloneDone == pc = "cleanup"
InlineDone == pc = "standalone"

\* the pairs (m, m + 1) of consecutive non-blank lines of ls that are a
\* region-close line followed by a region-open line
ClosePairs(ls) ==
    LET P == NonBlankPositions(ls) IN
    {m \in 1..(Len(P) - 1) : IsRegionClose(ls[P[m]]) /\ IsRegionOpen(ls[P[m + 1]])}

Gap(ls, m) == LET P == NonBlankPositions(ls) IN P[m + 1] - P[m] - 1

C4_NoBlankBeforeEndRegion ==
    CleanupDone =>
        \A i \in 2..Len(formatted_lines) :
            IsRegionClose(formatted_lines[i]) => ~IsBlankLine(formatted_lines[i - 1])

\* the pass inserted blank lines behind an earlier #endregion and stripped
\* the blank lines in front of a later one
C4_Witness ==
    /\ CleanupDone
    /\ \E i \in 1..Len(after_standalone), j \in 1..Len(after_standalone) :
           /\ i + 1 < j
           /\ IsRegionClose(after_standalone[i])
           /\ IsRegionOpen(after_standalone[i + 1])
           /\ IsBlankLine(after_standalone[j - 1])
           /\ IsRegionClose(after_standalone[j])

\* C2 as stated: every non-empty slot of the inline table and of the
\* standalone table appears in the output of format_code exactly once, and
\* the output holds no other comment.
C2_CommentsPreserved ==
    pc = "done" =>
        /\ \A s \in Slots(inline_comments) :
               Occurrences(result, inline_comments[s + 1][1]) = 1
        /\ \A s \in Slots(standalone_comments) :
               Occurrences(result, standalone_comments[s + 1][1]) = 1
        /\ CommentCount(result) =
               Cardinality(Slots(inline_comments)) + Cardinality(Slots(standalone_comments))

\* the input of _add_inline_comments
InlineInput == Append(rendered, Line(None, <<>>))

\* the line the inline comment of slot s belongs to: among the numbered
\* lines whose number does not exceed s those with the greatest number, and
\* of these the last one in the document (0 when there is none)
InlineTarget(ls, s) ==
    LET C == {i \in 1..Len(ls) : IsNumbered(ls[i]) /\ ls[i].no <= s} IN
    IF C = {} THEN 0
    ELSE CHOOSE i \in C :
            \A j \in C : ls[j].no < ls[i].no \/ (ls[j].no = ls[i].no /\ j <= i)

\* the comments of the slots s, s + 1, ... whose target is line i, each
\* behind the fixed offset, in ascending slot order
RECURSIVE Attached(_, _, _)
Attached(target, i, s) ==
    IF s >= Len(inline_comments) THEN <<>>
    ELSE (IF inline_comments[s + 1] # NoComment /\ target[s] = i
          THEN INLINE_COMMENT_OFFSET \o inline_comments[s + 1] ELSE <<>>)
         \o Attached(target, i, s + 1)

\* C7: _add_inline_comments leaves a synthetic line unchanged, attaches each
\* slot to at most one line, and appends every non-empty slot s, in
\* ascending slot order behind the fixed offset, to the numbered line with
\* the greatest number not exceeding s, the document-last one of these.
C7_InlineAttachment ==
    InlineDone =>
        LET target == [s \in 1..(Len(inline_comments) - 1) |-> InlineTarget(InlineInput, s)]
        IN /\ Len(after_inline) = Len(InlineInput)
           /\ \A i \in 1..Len(InlineInput) :
                  /\ after_inline[i].no = InlineInput[i].no
                  /\ ~IsNumbered(InlineInput[i]) => after_inline[i] = InlineInput[i]
                  /\ IsNumbered(InlineInput[i]) =>
                         after_inline[i].text =
                             InlineInput[i].text \o Attached(target, i, 1)
           /\ \A s \in Slots(inline_comments) :
                  /\ target[s] # 0
                  /\ Occurrences(TextsOf(after_inline), inline_comments[s + 1][1]) = 1

\* a comment of a later slot landed on the second of two rendered lines
\* that carry the same number, and a synthetic line went through the pass
C7_Witness ==
    /\ InlineDone
    /\ \E i \in 2..Len(after_inline) : \E s \in Slots(inline_comments) :
           /\ IsNumbered(after_inline[i])
           /\ after_inline[i - 1].no = after_inline[i].no
           /\ s > after_inline[i].no
           /\ Occurrences(<<after_inline[i].text>>, inline_comments[s + 1][1]) = 1
    /\ \E i \in 1..(Len(rendered)) : ~IsNumbered(rendered[i])

\* C8 as stated: _add_standalone_comments inserts no line between two
\* numbered lines that are adjacent in the formatted sequence, and the
\* comments of the slots lying between two statements that are separated
\* by synthetic lines are inserted between these two statements.
C8_OnlyBetweenStatements ==
    StandaloneDone =>
        LET P == NumberedPositions(after_inline)
            Q == NumberedPositions(after_standalone)
        IN /\ Len(P) = Len(Q)
           /\ \A k \in 1..(Len(P) - 1) :
                  /\ P[k + 1] = P[k] + 1 => Q[k + 1] = Q[k] + 1
                  /\ P[k + 1] > P[k] + 1 =>
                         \A s \in Slots(standalone_comments) :
                             (after_inline[P[k]].no < s /\ s < after_inline[P[k + 1]].no)
                                 => \E i \in (Q[k] + 1)..(Q[k + 1] - 1) :
                                        Occurrences(<<after_standalone[i].text>>,
                                                    standalone_comments[s + 1][1]) = 1

\* C9 as stated: in the sequence _add_standalone_comments returns, the line
\* immediately before an inserted #region comment is one blank synthetic
\* line, and no blank line stands immediately after the comment.
C9_BlankBeforeRegion ==
    StandaloneDone =>
        \A i \in 1..Len(after_standalone) :
            (~IsNumbered(after_standalone[i]) /\ IsRegionOpen(after_standalone[i])) =>
                /\ i > 1
                /\ after_standalone[i - 1] = Line(None, <<>>)
                /\ i < Len(after_standalone) => ~IsBlankLine(after_standalone[i + 1])

\* C10: the post-processing never reorders, drops or adds a numbered line.
\* After every pass the numbered lines carry the source line numbers of the
\* rendered sequence, in its order; the standalone pass hands every
\* numbered line on unchanged; the lines the region cleanup removes are
\* blank, so the non-blank lines (code and comments) keep their order.
C10_CodeLinesKept ==
    /\ Numbers(formatted_lines) = Numbers(rendered)
    /\ StandaloneDone =>
           /\ NumberedLines(after_standalone) = NumberedLines(after_inline)
           /\ \A i \in 1..Len(after_standalone) :
                  IsBlankLine(after_standalone[i]) => ~IsNumbered(after_standalone[i])
    /\ CleanupDone =>
           /\ NonBlankLines(formatted_lines) = NonBlankLines(after_standalone)
           /\ NumberedLines(formatted_lines) = NumberedLines(after_inline)

\* the standalone pass inserted comments and blank lines between two code
\* lines and the region cleanup removed blank lines in front of a #endregion
C10_Witness ==
    /\ pc = "done"
    /\ Len(after_standalone) > Len(after_inline)
    /\ Len(NumberedLines(rendered)) >= 2
    /\ \E i \in 2..Len(after_standalone) :
           IsRegionClose(after_standalone[i]) /\ IsBlankLine(after_standalone[i - 1])
    /\ Len(formatted_lines) < Len(after_standalone)


\* the statements a class-scope dispatcher is called for, with the depth of
\* the context it gets: the siblings of a block, the bodies of the nested
\* classes, the child of a static function
RECURSIVE ClassScope(_, _)
ClassScope(statements, depth) ==
    UNION {{[statement |-> statements[k], depth |-> depth]}
               \cup (IF statements[k].data = "class_def"
                     THEN ClassScope(Tail(statements[k].children), depth + 1)
                     ELSE IF statements[k].data = "static_func_def"
                     THEN ClassScope(<<statements[k].children[1]>>, depth)
                     ELSE {})
           : k \in 1..Len(statements)}

Range(s) == {s[i] : i \in 1..Len(s)}
Id(statement) == <<statement.data, statement.line>>
Unregistered(tree) ==
    {e \in ClassScope(tree.children, 0) : e.statement.data \notin DOMAIN handlers}
StaticStatements(tree) ==
    {e \in ClassScope(tree.children, 0) : e.statement.data = "static_func_def"}
LeadingTabs(text) == Len(IndentOf(text))

\* C5: the static handler renders its child with the same context and
\* rewrites only the first line: the context's indent, "static ", the base
\* first line stripped; the indent appears once, the first line keeps its
\* number, all other lines, the number of lines and the last consumed line
\* are those of the base rendering.  Checked for every static statement of
\* the tree, at its depth and for every cursor.
C5_StaticPrefix ==
    pc # "parsed" =>
        \A e \in StaticStatements(parse_tree) :
            \A cursor \in 0..e.statement.line :
                LET context == Context(e.depth, cursor)
                    base == format_class_statement(e.statement.children[1], context)
                    out == format_class_statement(e.statement, context)
                IN /\ out.raised = base.raised
                   /\ ~base.raised =>
                        /\ out.lines[1].text =
                               Indent(e.depth) \o <<Tok("static ")>>
                                   \o Strip(base.lines[1].text)
                        /\ LeadingTabs(out.lines[1].text) = e.depth
                        /\ LeadingTabs(base.lines[1].text) = e.depth
                        /\ out.lines[1].no = e.statement.line
                        /\ out.lines[1].no = base.lines[1].no
                        /\ Len(out.lines) = Len(base.lines)
                        /\ Tail(out.lines) = Tail(base.lines)
                        /\ out.last = base.last

\* a static function inside a nested class was rendered over several lines
\* and its first line stands in the block driver's outcome
C5_Witness ==
    /\ pc = "rendered"
    /\ \E e \in StaticStatements(parse_tree) :
           /\ e.depth >= 1
           /\ Id(e.statement) \in Range(handled)
           /\ LET out == format_class_statement(e.statement, Context(e.depth, 0))
              IN /\ Len(out.lines) > 2
                 /\ \E i \in 1..Len(rendered) : rendered[i] = out.lines[1]

\* C6: a statement with an unregistered tag, at the top, in a nested class
\* or under a static function, makes format_code fail: no handler runs for
\* it, the failure leaves format_code and no text is returned; a tree with
\* registered tags only never fails.
C6_DispatchMismatchFatal ==
    pc # "parsed" =>
        /\ Unregistered(parse_tree) # {} =>
               /\ pc = "KeyError"
               /\ result = <<>>
               /\ formatted_lines = <<>>
        /\ \A e \in Unregistered(parse_tree) : Id(e.statement) \notin Range(handled)
        /\ Unregistered(parse_tree) = {} => pc # "KeyError"

\* the unregistered tag was met below the top level, under a statement
\* whose handler had run
C6_Witness ==
    /\ pc = "KeyError"
    /\ Len(handled) >= 2
    /\ \E e \in Unregistered(parse_tree) : e.depth >= 1
    /\ \A e \in Unregistered(parse_tree) : e.depth >= 1
    /\ result = <<>>

====
